---- MODULE Spec2Model ----
(***************************************************************************)
(* ext::thread_pool (src/unnamed/part_000, lines 7-225) and                *)
(* ext::threaded_scheduler (lines 228-331) as state machines.              *)
(*                                                                         *)
(* Threads: the pool's workers (thread_pool::thread_func), one user thread *)
(* that calls submit / clear / set_nworkers / ~thread_pool one at a time,  *)
(* and one timer context per delayed task that runs                        *)
(* delayed_task_continuation::continuate.                                  *)
(*                                                                         *)
(* A step that runs entirely under m_mutex is one action.  thread_func's   *)
(* critical section is split after the load of the stop flag, because      *)
(* ~thread_pool stores the flag and notifies without holding the mutex.    *)
(* The model follows the pool up to its first fault (an out-of-bounds or   *)
(* null access, a join of a thread that is not joinable); after a fault    *)
(* nothing is known about the program and no action is enabled.            *)
(*                                                                         *)
(* The user thread works with one engine: in a behaviour of the pool the   *)
(* scheduler does not exist (s_pc = "none"), in a behaviour of the         *)
(* scheduler the pool does not exist (no worker, u_pc = "s_idle" between   *)
(* calls).  The tasks and their callback counters serve both.              *)
(***************************************************************************)
EXTENDS Integers, Sequences, FiniteSets, TLC

\* ------------------------------------------------------------- bounds
NTasks == 2        \* tasks the user may submit
PoolSize == 2      \* thread_pool(PoolSize) in the life-cycle specification
MaxW == 4          \* workers ever started (worker identities)
MaxN == 4          \* largest argument of set_nworkers / thread_pool(n)
ResizeTasks == 1   \* tasks submitted in the resizing specification
MaxCalls == 2      \* set_nworkers calls after construction
MaxTime == 2       \* the scheduler's clock runs from 0 to MaxTime

Tasks == 1..NTasks
Workers == 1..MaxW
Null == 0          \* an empty worker_ptr
User == 0          \* the user thread, as a waiter on m_event

VARIABLES
    m_workers,        \* std::vector<worker_ptr>: sequence of worker ids or Null
    m_pending,        \* thread_pool::m_pending
    m_tasks,          \* ready FIFO (sequence of task ids)
    m_delayed,        \* set of bridges (named by their task) linked in m_delayed
    m_delayed_count,  \* thread_pool::m_delayed_count
    m_mutex,          \* 0: free, w: worker w holds it between two of its steps
    marked,           \* bridge -> BOOLEAN: the marked latch
    b_pc,             \* bridge's continuation -> "none" | "armed" (timer pending) |
                      \*   "claimed" (won the latch) | "lost" (returned at line 29) | "done"
    b_res,            \* bridge -> "none" | "promoted" (task pushed to m_tasks) |
                      \*   "abandoned" (by clear())
    w_pc,             \* worker -> "none" | "idle" | "checked" | "wait" | "exec" | "done"
    w_stop,           \* worker -> m_stop_request
    w_joined,         \* worker -> m_thread has been joined
    w_task,           \* worker -> the task it executes (0: none)
    t_sub,            \* task -> it has been submitted
    exec_n,           \* task -> number of task_execute calls
    aband_n,          \* task -> number of task_abandone calls
    cb_locked,        \* tasks whose callback was invoked by a thread holding m_mutex
    h_push,           \* history: the tasks in the order they were appended to m_tasks
    h_pop,            \* history: the tasks in the order they were popped for execution
    u_pc,             \* user thread: "idle" | "c_wait" | "c_woken" | "c_dispose" |
                      \*   "d_stop" | "d_notify" | "d_clear" | "d_join" | "returned"
    destroying,       \* ~thread_pool has begun
    d_workers,        \* ~thread_pool's local `workers`
    d_i,              \* ~thread_pool: index of the next worker to wait for and join
    c_tasks,          \* clear()'s local `tasks`
    c_entry,          \* m_delayed as clear() found it when it took the lock
    c_taken,          \* the tasks clear() swapped out of m_tasks
    last_op,          \* the user operation that returned last
    last_n,           \* argument of the last set_nworkers call (constructor included)
    ncalls,           \* set_nworkers calls made after construction
    fut,              \* future returned by the last set_nworkers: [imm, deps]
    dropped,          \* workers removed from m_workers while not joined
    fault,            \* "none" | "oob" | "nullptr" | "join"
    s_queue,          \* threaded_scheduler::m_queue: the tasks in the heap
    s_point,          \* task -> its time point (entry->point)
    s_early,          \* history: the pairs <<a, b>> of tasks, b submitted after a or
                      \*   b = a, such that the clock was below the time points of both
                      \*   when b was submitted
    s_now,            \* the monotonic clock
    s_lnow,           \* run_passed_events' local `now`
    s_stopped,        \* threaded_scheduler::m_stopped
    s_mutex,          \* threaded_scheduler::m_mutex: "free" | "thread" | "user"
    s_pc,             \* scheduler thread: "none" | "run" | "loop" | "locked" | "exec" |
                      \*   "check" | "wait" | "exit"
    s_item,           \* run_passed_events' local `item` (0: none)
    s_wait,           \* the time point wait_until was called with
    c_queue           \* threaded_scheduler::clear()'s local `queue`

vars == <<m_workers, m_pending, m_tasks, m_delayed, m_delayed_count, m_mutex,
          marked, b_pc, b_res, w_pc, w_stop, w_joined, w_task, t_sub, exec_n, aband_n,
          cb_locked, h_push, h_pop, u_pc, destroying, d_workers, d_i, c_tasks, c_entry, c_taken,
          last_op, last_n, ncalls, fut, dropped, fault,
          s_queue, s_point, s_early, s_now, s_lnow, s_stopped, s_mutex, s_pc, s_item,
          s_wait, c_queue>>

poolVars == <<m_workers, m_pending>>
histVars == <<h_push, h_pop>>
taskVars == <<m_tasks, t_sub, exec_n, aband_n, cb_locked, histVars>>
delayVars == <<m_delayed, m_delayed_count, marked, b_pc, b_res>>
workerVars == <<w_pc, w_stop, w_joined, w_task>>
dtorVars == <<destroying, d_workers, d_i>>
clearVars == <<c_tasks, c_entry, c_taken>>
resizeVars == <<last_n, ncalls, fut, dropped>>
schedVars == <<s_queue, s_point, s_early, s_now, s_lnow, s_stopped, s_mutex, s_pc, s_item,
               s_wait, c_queue>>
\* What belongs to the pool alone.
poolOnly == <<poolVars, m_tasks, delayVars, m_mutex, workerVars, dtorVars, clearVars,
              resizeVars, last_op, fault>>

Range(s) == {s[i] : i \in DOMAIN s}

\* ------------------------------------------------------- m_event
\* The threads blocked in m_event.wait.
Waiters ==
    {wk \in Workers : w_pc[wk] = "wait"} \cup (IF u_pc = "c_wait" THEN {User} ELSE {})

\* notify_one wakes one of the waiters, whichever; -1: there is none.
NotifyTargets == IF Waiters = {} THEN {-1} ELSE Waiters

WakeWorkers(S) == [wk \in Workers |-> IF wk \in S THEN "idle" ELSE w_pc[wk]]
WakeUser(S) == IF User \in S /\ u_pc = "c_wait" THEN "c_woken" ELSE u_pc

\* ------------------------------------------------- worker, join_worker
\* is_finished(wptr): the worker's future is ready, which worker::thread_func
\* sets after thread_pool::thread_func has returned.
is_finished(wk, pcs) == pcs[wk] = "done"

\* std::remove_if(first, last, join_worker) on the stopping suffix `s`: the
\* elements for which join_worker is false are moved to the front in order; a
\* moved-from worker_ptr is empty, an element that was not overwritten stays.
RECURSIVE RemoveLoop(_, _, _, _)
RemoveLoop(s, r, i, pcs) ==
    IF i > Len(s) THEN [seq |-> s, kept |-> r - 1]
    ELSE IF ~is_finished(s[i], pcs)
         THEN RemoveLoop([s EXCEPT ![r] = s[i], ![i] = Null], r + 1, i + 1, pcs)
         ELSE RemoveLoop(s, r, i + 1, pcs)

remove_if(s, pcs) ==
    LET hit == {i \in 1..Len(s) : is_finished(s[i], pcs)} IN
    IF hit = {} THEN [seq |-> s, kept |-> Len(s)]
    ELSE LET k == CHOOSE i \in hit : \A j \in hit : i <= j
         IN RemoveLoop(s, k, k + 1, pcs)

\* join_worker is applied to every element of the suffix in order.  It
\* dereferences an empty pointer (fault "nullptr") or joins a thread that was
\* joined before (std::system_error, fault "join") at the first such element.
SuffixFault(s, pcs, joined) ==
    LET bad == {i \in 1..Len(s) :
                   \/ s[i] = Null
                   \/ (is_finished(s[i], pcs) /\ s[i] \in joined)} IN
    IF bad = {} THEN "none"
    ELSE LET k == CHOOSE i \in bad : \A j \in bad : i <= j
         IN IF s[k] = Null THEN "nullptr" ELSE "join"

NullSeq(k) == [i \in 1..k |-> Null]
FreshSeq(next, k) == [i \in 1..k |-> next + i - 1]

\* ------------------------------------------------- set_nworkers, get_nworkers
get_nworkers == m_pending

NoChange(ws, p) ==
    [fault |-> "none", workers |-> ws, pending |-> p, stops |-> {}, joins |-> {},
     created |-> {}, imm |-> TRUE, deps |-> {}, dropped |-> {}, notify |-> FALSE]

\* lines 89-104: n > old_size - m_pending.  After remove_if, m_pending is set
\* to last - first, the number J of workers removed (line 92); the container is
\* resized to n + J; std::move of line 98 copies the J elements from position
\* old_size on, which are the empty pointers resize appended, to the last J
\* positions; the loop of lines 100-101 starts workers at the positions from
\* old_size up to n.  For n < old_size the resize cuts the container and
\* `first` = begin() + old_size lies beyond `last`: fault "oob".
Grow(ws, p, n, pcs, joined, next) ==
    LET S == Len(ws)
        head == SubSeq(ws, 1, S - p)
        suffix == SubSeq(ws, S - p + 1, S)
        sf == SuffixFault(suffix, pcs, joined)
        rm == remove_if(suffix, pcs)
        J == p - rm.kept                       \* m_pending = last - first
        after == head \o rm.seq
        joins == {suffix[i] : i \in {j \in 1..p : is_finished(suffix[j], pcs)}}
        base == NoChange(ws, p)
    IN  IF sf /= "none" THEN [base EXCEPT !.fault = sf]
        ELSE IF n < S
        THEN \* resize(n + m_pending) cuts the container, then `first` starts
             \* beyond `last` and the loop of line 100 never meets it
             [base EXCEPT !.fault = "oob",
                          !.workers = SubSeq(after, 1, IF n + J < S THEN n + J ELSE S),
                          !.pending = J,
                          !.joins = joins,
                          !.dropped = {after[i] : i \in {j \in (n + J + 1)..S :
                                           after[j] /= Null /\ after[j] \notin (joined \cup joins)}}]
        ELSE [base EXCEPT !.workers = after \o FreshSeq(next, n - S) \o NullSeq(J),
                          !.pending = J,
                          !.joins = joins,
                          !.created = next..(next + (n - S) - 1)]

\* line 121: m_event.notify_all() after the stop requests.
\* (mutation of NotifyAllWorkers: the notify_all of line 121 left out)
NotifyAllWorkers_None == FALSE
NotifyAllWorkers == TRUE

\* lines 105-124: n <= old_size - m_pending
Shrink(ws, p, n) ==
    LET S == Len(ws)
        marks == SubSeq(ws, n + 1, S - p)      \* [first + n, last - m_pending)
        base == NoChange(ws, p)
    IN  IF Null \in Range(marks) THEN [base EXCEPT !.fault = "nullptr"]
        ELSE [base EXCEPT !.pending = p + S - n,   \* m_pending += old_size - n
                          !.stops = Range(marks),
                          !.deps = Range(marks),
                          !.imm = FALSE,
                          !.notify = NotifyAllWorkers]

\* thread_pool::set_nworkers(n) on container ws with m_pending = p.
set_nworkers(ws, p, n, pcs, joined, next) ==
    IF n = p THEN NoChange(ws, p)
    ELSE IF p > Len(ws)
    THEN \* old_size - m_pending is not a count: either branch leaves the container
         [NoChange(ws, p) EXCEPT !.fault = "oob"]
    ELSE IF n > Len(ws) - p THEN Grow(ws, p, n, pcs, joined, next)
    ELSE Shrink(ws, p, n)

NextWorker == 1 + Cardinality({wk \in Workers : w_pc[wk] /= "none"})
JoinedSet == {wk \in Workers : w_joined[wk]}

\* The future a set_nworkers call returned is ready.
FutReady == fut.imm \/ \A wk \in fut.deps : w_pc[wk] = "done"

\* ---------------------------------------------------------------- Init
\* No threaded_scheduler exists.
SchedAbsent ==
    /\ s_queue = {}
    /\ s_point = [t \in Tasks |-> 0]
    /\ s_early = {}
    /\ s_now = 0
    /\ s_lnow = 0
    /\ s_stopped = FALSE
    /\ s_mutex = "free"
    /\ s_pc = "none"
    /\ s_item = 0
    /\ s_wait = 0
    /\ c_queue = {}

\* thread_pool(k): set_nworkers(k) on the empty pool (lines 188-191).
InitPool(k) ==
    LET r == set_nworkers(<<>>, 0, k, [wk \in Workers |-> "none"], {}, 1) IN
    /\ m_workers = r.workers
    /\ m_pending = r.pending
    /\ m_tasks = <<>>
    /\ m_delayed = {}
    /\ m_delayed_count = 0
    /\ m_mutex = 0
    /\ marked = [t \in Tasks |-> FALSE]
    /\ b_pc = [t \in Tasks |-> "none"]
    /\ b_res = [t \in Tasks |-> "none"]
    /\ w_pc = [wk \in Workers |-> IF wk \in r.created THEN "idle" ELSE "none"]
    /\ w_stop = [wk \in Workers |-> FALSE]
    /\ w_joined = [wk \in Workers |-> FALSE]
    /\ w_task = [wk \in Workers |-> 0]
    /\ t_sub = [t \in Tasks |-> FALSE]
    /\ exec_n = [t \in Tasks |-> 0]
    /\ aband_n = [t \in Tasks |-> 0]
    /\ cb_locked = {}
    /\ h_push = <<>>
    /\ h_pop = <<>>
    /\ u_pc = "idle"
    /\ destroying = FALSE
    /\ d_workers = <<>>
    /\ d_i = 1
    /\ c_tasks = <<>>
    /\ c_entry = {}
    /\ c_taken = {}
    /\ last_op = "ctor"
    /\ last_n = k
    /\ ncalls = 0
    /\ fut = [imm |-> r.imm, deps |-> r.deps]
    /\ dropped = {}
    /\ fault = r.fault
    /\ SchedAbsent

Init == InitPool(PoolSize)

\* The user thread is between two calls on a live pool.
UserIdle == u_pc = "idle" /\ ~destroying /\ fault = "none"

\* m_tasks.push_back (line 40, and submit): the FIFO after an append.
\* (mutation of PushBack: the task is linked at the front)
PushBack_Front(q, t) == <<t>> \o q
PushBack(q, t) == Append(q, t)

\* Tasks are submitted in the order of their names.
NextTask(t) == ~t_sub[t] /\ \A s \in Tasks : s < t => t_sub[s]

\* ------------------------------------------------------- submit
\* submit(task): append to m_tasks under the lock, wake one waiter.
Submit(t) ==
    /\ UserIdle /\ m_mutex = 0 /\ NextTask(t)
    /\ m_tasks' = PushBack(m_tasks, t)
    /\ h_push' = Append(h_push, t)
    /\ t_sub' = [t_sub EXCEPT ![t] = TRUE]
    /\ \E x \in NotifyTargets : w_pc' = WakeWorkers({x})
    /\ last_op' = "submit"
    /\ UNCHANGED <<poolVars, delayVars, m_mutex, w_stop, w_joined, w_task, exec_n,
                   aband_n, cb_locked, h_pop, u_pc, dtorVars, clearVars, resizeVars, fault>>
    /\ UNCHANGED schedVars

\* submit(task, timer_future): a bridge owning the task is linked into
\* m_delayed and installed as the continuation of the timer future.
SubmitDelayed(t) ==
    /\ UserIdle /\ m_mutex = 0 /\ NextTask(t)
    /\ m_delayed' = m_delayed \cup {t}
    /\ b_pc' = [b_pc EXCEPT ![t] = "armed"]
    /\ t_sub' = [t_sub EXCEPT ![t] = TRUE]
    /\ last_op' = "submit_delayed"
    /\ UNCHANGED <<poolVars, m_tasks, m_delayed_count, marked, b_res, m_mutex, workerVars,
                   exec_n, aband_n, cb_locked, histVars, u_pc, dtorVars, clearVars,
                   resizeVars, fault>>
    /\ UNCHANGED schedVars

\* ------------------------------------------- delayed_task_continuation
\* mark_marked(): compare-and-set of the latch from clear to set; TRUE when
\* this call set it.
mark_marked(b) == ~marked[b]

\* continuate, lines 27-29: the timer fires and tries to claim the bridge.
TimerFire(b) ==
    /\ fault = "none"
    /\ b_pc[b] = "armed"
    /\ b_pc' = [b_pc EXCEPT ![b] = IF mark_marked(b) THEN "claimed" ELSE "lost"]
    /\ marked' = [marked EXCEPT ![b] = TRUE]
    /\ UNCHANGED <<poolVars, taskVars, m_delayed, m_delayed_count, b_res, m_mutex,
                   workerVars, u_pc, dtorVars, clearVars, last_op, resizeVars, fault>>
    /\ UNCHANGED schedVars

\* line 41: bool notify = delayed_count == 0 || --delayed_count == 0;
\* (mutation of CountAfterTransfer: decremented without the test for 0)
CountAfterTransfer_Dec == m_delayed_count - 1
CountAfterTransfer == IF m_delayed_count = 0 THEN 0 ELSE m_delayed_count - 1
\* (mutation of NotifyAfterTransfer: notify_one of line 49 never called)
NotifyAfterTransfer_Never == FALSE
NotifyAfterTransfer == CountAfterTransfer = 0

\* continuate, lines 32-50: under the lock, unlink the bridge, push the task,
\* settle delayed_count and notify_one.  A pool whose destructor has returned
\* is gone: touching it is the fault "dangling".
Transfer(b) ==
    /\ fault = "none"
    /\ b_pc[b] = "claimed"
    /\ m_mutex = 0
    /\ IF u_pc = "returned"
       THEN /\ fault' = "dangling"
            /\ UNCHANGED <<taskVars, delayVars, workerVars, u_pc>>
       ELSE /\ m_delayed' = m_delayed \ {b}
            /\ m_tasks' = PushBack(m_tasks, b)
            /\ h_push' = Append(h_push, b)
            /\ m_delayed_count' = CountAfterTransfer
            /\ b_pc' = [b_pc EXCEPT ![b] = "done"]
            /\ b_res' = [b_res EXCEPT ![b] = "promoted"]
            /\ IF NotifyAfterTransfer
               THEN \E x \in NotifyTargets :
                       /\ w_pc' = WakeWorkers({x})
                       /\ u_pc' = WakeUser({x})
               ELSE UNCHANGED <<w_pc, u_pc>>
            /\ UNCHANGED <<marked, t_sub, exec_n, aband_n, cb_locked, h_pop, w_stop,
                           w_joined, w_task, fault>>
    /\ UNCHANGED <<poolVars, m_mutex, dtorVars, clearVars, last_op, resizeVars>>
    /\ UNCHANGED schedVars

\* ------------------------------------------------------- thread_func
\* lines 134-136 and 140-142: take the lock (at the top of the loop or when
\* m_event.wait returns) and load the stop flag.
WorkerLock(wk) ==
    /\ fault = "none"
    /\ w_pc[wk] = "idle"
    /\ m_mutex = 0
    /\ IF w_stop[wk]
       THEN w_pc' = [w_pc EXCEPT ![wk] = "done"] /\ UNCHANGED m_mutex
       ELSE w_pc' = [w_pc EXCEPT ![wk] = "checked"] /\ m_mutex' = wk
    /\ UNCHANGED <<poolVars, taskVars, delayVars, w_stop, w_joined, w_task, u_pc,
                   dtorVars, clearVars, last_op, resizeVars, fault>>
    /\ UNCHANGED schedVars

\* line 149: lk.unlock() before task_execute.
Unlocked(wk) == 0

\* lines 146-147: the task a worker takes, and what it leaves.
PoppedTask == Head(m_tasks)
\* (mutation of AfterPop: pop_front of line 147 left out)
AfterPop_NoPop == m_tasks
AfterPop == Tail(m_tasks)

\* lines 137, 143: with the queue empty, m_event.wait(lk);
\* lines 145-151: else pop the front, unlock, task_execute.
WorkerCheck(wk) ==
    /\ fault = "none"
    /\ w_pc[wk] = "checked"
    /\ m_mutex = wk
    /\ m_mutex' = Unlocked(wk)
    /\ IF m_tasks = <<>>
       THEN /\ w_pc' = [w_pc EXCEPT ![wk] = "wait"]
            /\ UNCHANGED <<m_tasks, w_task, exec_n, h_pop>>
       ELSE /\ w_pc' = [w_pc EXCEPT ![wk] = "exec"]
            /\ w_task' = [w_task EXCEPT ![wk] = PoppedTask]
            /\ m_tasks' = AfterPop
            /\ h_pop' = Append(h_pop, PoppedTask)
            /\ exec_n' = [exec_n EXCEPT ![PoppedTask] = @ + 1]
    /\ UNCHANGED <<poolVars, delayVars, t_sub, aband_n, cb_locked, h_push, w_stop,
                   w_joined, u_pc, dtorVars, clearVars, last_op, resizeVars, fault>>
    /\ UNCHANGED schedVars

\* line 151: task_execute returns; back to the top of the loop.
WorkerFinish(wk) ==
    /\ fault = "none"
    /\ w_pc[wk] = "exec"
    /\ w_pc' = [w_pc EXCEPT ![wk] = "idle"]
    /\ w_task' = [w_task EXCEPT ![wk] = 0]
    /\ UNCHANGED <<poolVars, taskVars, delayVars, m_mutex, w_stop, w_joined, u_pc,
                   dtorVars, clearVars, last_op, resizeVars, fault>>
    /\ UNCHANGED schedVars

\* m_event.wait may return without a notification (a worker's wait of line
\* 140, clear()'s wait of line 177).
SpuriousWake(x) ==
    /\ fault = "none"
    /\ x \in Waiters
    /\ w_pc' = WakeWorkers({x})
    /\ u_pc' = WakeUser({x})
    /\ UNCHANGED <<poolVars, taskVars, delayVars, m_mutex, w_stop, w_joined, w_task,
                   dtorVars, clearVars, last_op, resizeVars, fault>>
    /\ UNCHANGED schedVars

\* ------------------------------------------------------------ clear
\* lines 163-174: the bridges clear() claims (and abandons), and the ones
\* whose timer claimed them first (counted in m_delayed_count, left linked).
\* (mutation of ClearClaimed: the result of mark_marked of line 165 ignored)
ClearClaimed_All == m_delayed
ClearClaimed == {b \in m_delayed : mark_marked(b)}
\* (mutation of ClearCounted: a bridge whose timer holds the latch is unlinked
\* instead of counted at line 166)
ClearCounted_None == {}
ClearCounted == m_delayed \ ClearClaimed

\* lines 161-178: under the lock, walk m_delayed; then wait for
\* m_delayed_count == 0 and swap m_tasks out.  item.abandone() of line 171 runs
\* with the lock held.
ClearBegin ==
    /\ fault = "none"
    /\ \/ u_pc = "idle" /\ ~destroying
       \/ u_pc = "d_clear"
    /\ m_mutex = 0
    /\ LET cnt == m_delayed_count + Cardinality(ClearCounted) IN
       /\ c_entry' = m_delayed
       /\ marked' = [b \in Tasks |-> marked[b] \/ b \in m_delayed]
       /\ b_res' = [b \in Tasks |-> IF b \in ClearClaimed THEN "abandoned" ELSE b_res[b]]
       /\ aband_n' = [t \in Tasks |-> IF t \in ClearClaimed THEN aband_n[t] + 1
                                      ELSE aband_n[t]]
       /\ cb_locked' = cb_locked \cup ClearClaimed
       /\ m_delayed' = ClearCounted
       /\ m_delayed_count' = cnt
       /\ IF cnt = 0
          THEN /\ c_tasks' = m_tasks
               /\ c_taken' = Range(m_tasks)
               /\ m_tasks' = <<>>
               /\ u_pc' = "c_dispose"
          ELSE /\ c_tasks' = <<>>
               /\ c_taken' = {}
               /\ u_pc' = "c_wait"
               /\ UNCHANGED m_tasks
    /\ UNCHANGED <<poolVars, t_sub, exec_n, histVars, b_pc, m_mutex, workerVars,
                   dtorVars, last_op, resizeVars, fault>>
    /\ UNCHANGED schedVars

\* line 177: woken, clear() retakes the lock and evaluates the predicate.
ClearWake ==
    /\ fault = "none"
    /\ u_pc = "c_woken"
    /\ m_mutex = 0
    /\ IF m_delayed_count = 0
       THEN /\ c_tasks' = m_tasks
            /\ c_taken' = Range(m_tasks)
            /\ m_tasks' = <<>>
            /\ u_pc' = "c_dispose"
       ELSE /\ u_pc' = "c_wait"
            /\ UNCHANGED <<m_tasks, c_tasks, c_taken>>
    /\ UNCHANGED <<poolVars, t_sub, exec_n, aband_n, cb_locked, histVars, delayVars,
                   m_mutex, workerVars, dtorVars, c_entry, last_op, resizeVars, fault>>
    /\ UNCHANGED schedVars

\* lines 181-185: outside the lock, abandon and release what was swapped out.
ClearDispose ==
    /\ fault = "none"
    /\ u_pc = "c_dispose"
    /\ aband_n' = [t \in Tasks |-> IF t \in Range(c_tasks) THEN aband_n[t] + 1
                                   ELSE aband_n[t]]
    /\ c_tasks' = <<>>
    /\ u_pc' = IF destroying THEN "d_join" ELSE "idle"
    /\ last_op' = "clear"
    /\ UNCHANGED <<poolVars, m_tasks, t_sub, exec_n, cb_locked, histVars, delayVars,
                   m_mutex, workerVars, dtorVars, c_entry, c_taken, resizeVars, fault>>
    /\ UNCHANGED schedVars

\* ------------------------------------------------------ ~thread_pool
\* lines 203-207: swap m_workers into the local `workers` under the lock.
DtorSwap ==
    /\ UserIdle
    /\ m_mutex = 0
    /\ d_workers' = m_workers
    /\ m_workers' = <<>>
    /\ destroying' = TRUE
    /\ d_i' = 1
    /\ u_pc' = "d_stop"
    /\ UNCHANGED <<m_pending, taskVars, delayVars, m_mutex, workerVars, clearVars,
                   last_op, resizeVars, fault>>
    /\ UNCHANGED schedVars

\* lines 210-211: stop_request() on every element, without the lock.
DtorStop ==
    /\ fault = "none"
    /\ u_pc = "d_stop"
    /\ IF Null \in Range(d_workers)
       THEN fault' = "nullptr" /\ UNCHANGED <<w_stop, u_pc>>
       ELSE /\ w_stop' = [wk \in Workers |-> w_stop[wk] \/ wk \in Range(d_workers)]
            /\ u_pc' = "d_notify"
            /\ UNCHANGED fault
    /\ UNCHANGED <<poolVars, taskVars, delayVars, m_mutex, w_pc, w_joined, w_task,
                   dtorVars, clearVars, last_op, resizeVars>>
    /\ UNCHANGED schedVars

\* line 214: m_event.notify_all(), without the lock; then clear() (line 217).
DtorNotify ==
    /\ fault = "none"
    /\ u_pc = "d_notify"
    /\ w_pc' = WakeWorkers(Waiters)
    /\ u_pc' = "d_clear"
    /\ UNCHANGED <<poolVars, taskVars, delayVars, m_mutex, w_stop, w_joined, w_task,
                   dtorVars, clearVars, last_op, resizeVars, fault>>
    /\ UNCHANGED schedVars

\* lines 220-224: wait for the worker's future, then join its thread; joining
\* a thread that was joined before throws in a noexcept destructor.
DtorJoin ==
    /\ fault = "none"
    /\ u_pc = "d_join"
    /\ d_i <= Len(d_workers)
    /\ is_finished(d_workers[d_i], w_pc)
    /\ IF w_joined[d_workers[d_i]]
       THEN fault' = "join" /\ UNCHANGED <<w_joined, d_i>>
       ELSE /\ w_joined' = [w_joined EXCEPT ![d_workers[d_i]] = TRUE]
            /\ d_i' = d_i + 1
            /\ UNCHANGED fault
    /\ UNCHANGED <<poolVars, taskVars, delayVars, m_mutex, w_pc, w_stop, w_task, u_pc,
                   destroying, d_workers, clearVars, last_op, resizeVars>>
    /\ UNCHANGED schedVars

\* line 225: every element was joined; the destructor returns.
DtorReturn ==
    /\ fault = "none"
    /\ u_pc = "d_join"
    /\ d_i > Len(d_workers)
    /\ u_pc' = "returned"
    /\ last_op' = "dtor"
    /\ UNCHANGED <<poolVars, taskVars, delayVars, m_mutex, workerVars, dtorVars,
                   clearVars, resizeVars, fault>>
    /\ UNCHANGED schedVars

\* -------------------------------------------------- set_nworkers call
\* lines 80-125 as one step under the lock; notify_all of line 121 follows the
\* unlock at once.  A call that would start more than MaxW workers in all is
\* beyond the model's bound.
SetNWorkers(n) ==
    /\ UserIdle
    /\ m_mutex = 0
    /\ ncalls < MaxCalls
    /\ LET r == set_nworkers(m_workers, m_pending, n, w_pc, JoinedSet, NextWorker) IN
       /\ r.created \subseteq Workers
       /\ m_workers' = r.workers
       /\ m_pending' = r.pending
       /\ w_stop' = [wk \in Workers |-> w_stop[wk] \/ wk \in r.stops]
       /\ w_joined' = [wk \in Workers |-> w_joined[wk] \/ wk \in r.joins]
       /\ w_pc' = [wk \in Workers |->
                     IF wk \in r.created THEN "idle"
                     ELSE IF r.notify /\ w_pc[wk] = "wait" THEN "idle"
                     ELSE w_pc[wk]]
       /\ fut' = [imm |-> r.imm, deps |-> r.deps]
       /\ dropped' = dropped \cup r.dropped
       /\ fault' = r.fault
    /\ last_n' = n
    /\ ncalls' = ncalls + 1
    /\ last_op' = "set_nworkers"
    /\ UNCHANGED <<taskVars, delayVars, m_mutex, w_task, u_pc, dtorVars, clearVars>>
    /\ UNCHANGED schedVars

\* =================================================== threaded_scheduler
\* line 232: max_timepoint(), a time point the clock of the model never
\* reaches.
max_timepoint == MaxTime + 1

\* lines 245-249: entry_comparer, the "less" of the priority queue.
\* (mutation of entry_comparer: the comparison of line 248 reversed)
entry_comparer_Less(t1, t2) == s_point[t1] < s_point[t2]
entry_comparer(t1, t2) == s_point[t1] > s_point[t2]

\* std::priority_queue::top(): an element the comparer puts below no other.
\* Which of several such elements is on top is up to the implementation.
Tops(q) == {t \in q : \A u \in q : ~entry_comparer(t, u)}

\* lines 251-255.
\* (mutation of next_in: always the sentinel)
next_in_Max(q) == max_timepoint
next_in(q) == IF q = {} THEN max_timepoint ELSE s_point[CHOOSE t \in Tops(q) : TRUE]

\* line 269: `if (now < top->point) break;` -- the top is taken when this holds.
\* (mutation of Passed: the comparison of line 269 left out)
Passed_Always(now, point) == TRUE
Passed(now, point) == ~(now < point)

\* The lock_guard of line 265 ends with its block (line 273).
\* (mutation of ScopeEnd: the mutex still held after the block)
ScopeEnd_Held == "thread"
ScopeEnd == "free"

\* m_newdata.notify_one(): the scheduler thread is the only waiter.
\* (mutation of NotifyNewdata: nobody is woken)
NotifyNewdata_None == s_pc
NotifyNewdata == IF s_pc = "wait" THEN "run" ELSE s_pc

\* No thread_pool exists; the user thread is between two calls on the scheduler.
PoolAbsent ==
    /\ m_workers = <<>>
    /\ m_pending = 0
    /\ m_tasks = <<>>
    /\ m_delayed = {}
    /\ m_delayed_count = 0
    /\ m_mutex = 0
    /\ marked = [t \in Tasks |-> FALSE]
    /\ b_pc = [t \in Tasks |-> "none"]
    /\ b_res = [t \in Tasks |-> "none"]
    /\ w_pc = [wk \in Workers |-> "none"]
    /\ w_stop = [wk \in Workers |-> FALSE]
    /\ w_joined = [wk \in Workers |-> FALSE]
    /\ w_task = [wk \in Workers |-> 0]
    /\ destroying = FALSE
    /\ d_workers = <<>>
    /\ d_i = 1
    /\ c_tasks = <<>>
    /\ c_entry = {}
    /\ c_taken = {}
    /\ last_n = 0
    /\ ncalls = 0
    /\ fut = [imm |-> TRUE, deps |-> {}]
    /\ dropped = {}
    /\ fault = "none"

\* threaded_scheduler(): the thread is started (lines 310-313).
InitSched ==
    /\ PoolAbsent
    /\ t_sub = [t \in Tasks |-> FALSE]
    /\ exec_n = [t \in Tasks |-> 0]
    /\ aband_n = [t \in Tasks |-> 0]
    /\ cb_locked = {}
    /\ h_push = <<>>
    /\ h_pop = <<>>
    /\ u_pc = "s_idle"
    /\ last_op = "ctor"
    /\ s_queue = {}
    /\ s_point = [t \in Tasks |-> 0]
    /\ s_early = {}
    /\ s_now = 0
    /\ s_lnow = 0
    /\ s_stopped = FALSE
    /\ s_mutex = "free"
    /\ s_pc = "run"
    /\ s_item = 0
    /\ s_wait = 0
    /\ c_queue = {}

\* The monotonic clock advances.
Tick ==
    /\ s_pc /= "none"
    /\ s_now < MaxTime
    /\ s_now' = s_now + 1
    /\ UNCHANGED <<poolOnly, t_sub, exec_n, aband_n, cb_locked, histVars, u_pc, s_queue, s_point, s_early, s_lnow, s_stopped, s_mutex, s_pc, s_item,
                   s_wait, c_queue>>

\* submit(task, when): under the lock push the entry; notify m_newdata when the
\* new entry is the earliest (and possibly also when it is not).
SchedSubmit(t, when) ==
    /\ u_pc = "s_idle" /\ s_mutex = "free" /\ NextTask(t)
    /\ s_queue' = s_queue \cup {t}
    /\ s_point' = [s_point EXCEPT ![t] = when]
    /\ s_early' = s_early \cup
                    {<<a, t>> : a \in {u \in Tasks : (t_sub[u] \/ u = t) /\ s_now < when
                                                     /\ s_now < s_point'[u]}}
    /\ t_sub' = [t_sub EXCEPT ![t] = TRUE]
    /\ h_push' = Append(h_push, t)
    /\ \/ s_pc' = NotifyNewdata
       \/ when >= next_in(s_queue) /\ s_pc' = s_pc
    /\ UNCHANGED <<poolOnly, exec_n, aband_n, cb_locked, h_pop, u_pc, s_now,
                   s_lnow, s_stopped, s_mutex, s_item, s_wait, c_queue>>

\* What the scheduler thread's own steps leave alone.
schedUser == <<poolOnly, t_sub, aband_n, cb_locked, h_push, u_pc,
               s_point, s_early, s_now, s_stopped, c_queue>>

\* run_passed_events, line 259: now = clock::now().  (The `wait` of the last
\* turn of thread_func's loop is gone: 0 again.)
SchedNow ==
    /\ s_pc = "run"
    /\ s_lnow' = s_now
    /\ s_wait' = 0
    /\ s_pc' = "loop"
    /\ UNCHANGED <<schedUser, exec_n, h_pop, s_queue, s_mutex, s_item>>

\* line 265: lock_guard lk(m_mutex).
SchedLock ==
    /\ s_pc = "loop"
    /\ s_mutex = "free"
    /\ s_mutex' = "thread"
    /\ s_pc' = "locked"
    /\ UNCHANGED <<schedUser, exec_n, h_pop, s_queue, s_lnow, s_item, s_wait>>

\* lines 266-275: with the heap empty return; with the top not yet passed
\* break; else move the top into item, pop it, leave the block and call
\* task_execute.  Leaving run_passed_events ends the life of `now` (0 again).
SchedTop ==
    /\ s_pc = "locked"
    /\ s_mutex = "thread"
    /\ s_mutex' = ScopeEnd
    /\ IF s_queue = {}
       THEN /\ s_pc' = "check" /\ s_lnow' = 0
            /\ UNCHANGED <<s_queue, s_item, exec_n, h_pop>>
       ELSE \E top \in Tops(s_queue) :
               IF Passed(s_lnow, s_point[top])
               THEN /\ s_item' = top
                    /\ s_queue' = s_queue \ {top}
                    /\ exec_n' = [exec_n EXCEPT ![top] = @ + 1]
                    /\ h_pop' = Append(h_pop, top)
                    /\ s_pc' = "exec"
                    /\ UNCHANGED s_lnow
               ELSE /\ s_pc' = "check" /\ s_lnow' = 0
                    /\ UNCHANGED <<s_queue, s_item, exec_n, h_pop>>
    /\ UNCHANGED <<schedUser, s_wait>>

\* line 275: task_execute returns; next turn of the loop of line 262.
SchedFinish ==
    /\ s_pc = "exec"
    /\ s_item' = 0
    /\ s_pc' = "loop"
    /\ UNCHANGED <<schedUser, exec_n, h_pop, s_queue, s_mutex, s_lnow, s_wait>>

\* thread_func, lines 285-289: under the lock, return when stopped; else
\* wait_until(next_in), which releases the lock.
SchedCheck ==
    /\ s_pc = "check"
    /\ s_mutex = "free"
    /\ IF s_stopped
       THEN s_pc' = "exit" /\ UNCHANGED s_wait
       ELSE s_pc' = "wait" /\ s_wait' = next_in(s_queue)
    /\ UNCHANGED <<schedUser, exec_n, h_pop, s_queue, s_mutex, s_lnow, s_item>>

\* wait_until returns because the clock reached its time point.
SchedTimeout ==
    /\ s_pc = "wait"
    /\ s_now >= s_wait
    /\ s_pc' = "run"
    /\ UNCHANGED <<schedUser, exec_n, h_pop, s_queue, s_mutex, s_lnow, s_item, s_wait>>

\* wait_until returns early without a notification.
SchedSpurious ==
    /\ s_pc = "wait"
    /\ s_now < s_wait
    /\ s_pc' = "run"
    /\ UNCHANGED <<schedUser, exec_n, h_pop, s_queue, s_mutex, s_lnow, s_item, s_wait>>

\* line 298: what `queue = std::move(m_queue)` leaves in m_queue (the vector
\* of the priority_queue gives its storage away).
\* (mutation of MovedFrom: the entries are copied, not moved)
MovedFrom_Kept(q) == q
MovedFrom(q) == {}

\* clear(), lines 296-299: under the lock, queue = std::move(m_queue).
SchedClearMove ==
    /\ u_pc = "s_idle"
    /\ s_mutex = "free"
    /\ c_queue' = s_queue
    /\ s_queue' = MovedFrom(s_queue)
    /\ u_pc' = "s_dispose"
    /\ UNCHANGED <<poolOnly, t_sub, exec_n, aband_n, cb_locked, histVars, s_point, s_early,
                   s_now, s_lnow, s_stopped, s_mutex, s_pc, s_item, s_wait>>

\* The tasks whose callback a step of the user thread invokes with m_mutex held.
UnderLock(ts) == IF s_mutex = "user" THEN ts ELSE {}

\* clear(), lines 301-307: task_abandone on every entry of the local queue,
\* then notify_one.
SchedClearDispose ==
    /\ u_pc = "s_dispose"
    /\ aband_n' = [t \in Tasks |-> IF t \in c_queue THEN aband_n[t] + 1 ELSE aband_n[t]]
    /\ cb_locked' = cb_locked \cup UnderLock(c_queue)
    /\ c_queue' = {}
    /\ s_pc' = NotifyNewdata
    /\ u_pc' = "s_idle"
    /\ UNCHANGED <<poolOnly, t_sub, exec_n, histVars, s_queue, s_point, s_early, s_now,
                   s_lnow, s_stopped, s_mutex, s_item, s_wait>>

\* ~threaded_scheduler, lines 318-319: lock, m_stopped = true.
SchedDtorStop ==
    /\ u_pc = "s_idle"
    /\ s_mutex = "free"
    /\ s_mutex' = "user"
    /\ s_stopped' = TRUE
    /\ u_pc' = "s_drain"
    /\ UNCHANGED <<poolOnly, t_sub, exec_n, aband_n, cb_locked, histVars, s_queue,
                   s_point, s_early, s_now, s_lnow, s_pc, s_item, s_wait, c_queue>>

\* lines 321-326: task_abandone on every entry of m_queue, inside the block of
\* the lock_guard; then the block ends.
SchedDtorDrain ==
    /\ u_pc = "s_drain"
    /\ aband_n' = [t \in Tasks |-> IF t \in s_queue THEN aband_n[t] + 1 ELSE aband_n[t]]
    /\ cb_locked' = cb_locked \cup UnderLock(s_queue)
    /\ s_queue' = {}
    /\ s_mutex' = "free"
    /\ u_pc' = "s_notify"
    /\ UNCHANGED <<poolOnly, t_sub, exec_n, histVars, s_point, s_early, s_now,
                   s_lnow, s_stopped, s_pc, s_item, s_wait, c_queue>>

\* line 328: m_newdata.notify_one().
SchedDtorNotify ==
    /\ u_pc = "s_notify"
    /\ s_pc' = NotifyNewdata
    /\ u_pc' = "s_join"
    /\ UNCHANGED <<poolOnly, t_sub, exec_n, aband_n, cb_locked, histVars,
                   s_queue, s_point, s_early, s_now, s_lnow, s_stopped, s_mutex, s_item, s_wait,
                   c_queue>>

\* line 329: m_thread.join() returns once thread_func has returned.
SchedDtorJoin ==
    /\ u_pc = "s_join"
    /\ s_pc = "exit"
    /\ u_pc' = "s_returned"
    /\ UNCHANGED <<poolOnly, t_sub, exec_n, aband_n, cb_locked, histVars, s_queue,
                   s_point, s_early, s_now, s_lnow, s_stopped, s_mutex, s_pc, s_item, s_wait,
                   c_queue>>

\* ------------------------------------------------------ specifications
\* Every step but a spurious wake-up.
Step ==
    \/ \E t \in Tasks : Submit(t)
    \/ \E t \in Tasks : SubmitDelayed(t)
    \/ \E b \in Tasks : TimerFire(b)
    \/ \E b \in Tasks : Transfer(b)
    \/ \E wk \in Workers : WorkerLock(wk)
    \/ \E wk \in Workers : WorkerCheck(wk)
    \/ \E wk \in Workers : WorkerFinish(wk)
    \/ ClearBegin
    \/ ClearWake
    \/ ClearDispose
    \/ DtorSwap
    \/ DtorStop
    \/ DtorNotify
    \/ DtorJoin
    \/ DtorReturn

\* The life cycle of thread_pool(PoolSize): submissions, timers, workers,
\* clear() and the destructor.
Next ==
    \/ Step
    \/ \E x \in Workers \cup {User} : SpuriousWake(x)

Spec == Init /\ [][Next]_vars

\* Resizing: thread_pool(k) for any k, then set_nworkers calls among
\* submissions, the workers' steps, clear() and the destructor (no delayed
\* tasks).
InitResize == \E k \in 0..MaxN : InitPool(k)

NextResize ==
    \/ \E n \in 0..MaxN : SetNWorkers(n)
    \/ \E t \in 1..ResizeTasks : Submit(t)
    \/ \E wk \in Workers : WorkerLock(wk)
    \/ \E wk \in Workers : WorkerCheck(wk)
    \/ \E wk \in Workers : WorkerFinish(wk)
    \/ \E wk \in Workers : SpuriousWake(wk)
    \/ ClearBegin
    \/ ClearDispose
    \/ DtorSwap
    \/ DtorStop
    \/ DtorNotify
    \/ DtorJoin
    \/ DtorReturn

SpecResize == InitResize /\ [][NextResize]_vars

\* A pool in service: submissions, timers and workers, with no clear() and no
\* destructor.  A thread that is scheduled again and again takes the mutex in
\* the end (strong fairness of the steps that lock it) and goes on from where
\* it is; nothing is assumed about when a timer fires or a wait returns
\* spuriously.
NextRun ==
    \/ \E t \in Tasks : Submit(t)
    \/ \E t \in Tasks : SubmitDelayed(t)
    \/ \E b \in Tasks : TimerFire(b)
    \/ \E b \in Tasks : Transfer(b)
    \/ \E wk \in Workers : WorkerLock(wk)
    \/ \E wk \in Workers : WorkerCheck(wk)
    \/ \E wk \in Workers : WorkerFinish(wk)
    \/ \E wk \in Workers : SpuriousWake(wk)

FairRun ==
    /\ \A b \in Tasks : SF_vars(Transfer(b))
    /\ \A wk \in Workers : SF_vars(WorkerLock(wk))
    /\ \A wk \in Workers : WF_vars(WorkerCheck(wk))
    /\ \A wk \in Workers : WF_vars(WorkerFinish(wk))

SpecRun == Init /\ [][NextRun]_vars /\ FairRun

\* The scheduler: submissions with any time point (past ones too), the clock,
\* the scheduler thread, clear() and the destructor.  A thread that can go on
\* does; nothing is assumed about the clock or about what the user calls.
NextSched ==
    \/ \E t \in Tasks : \E when \in 0..MaxTime : SchedSubmit(t, when)
    \/ Tick
    \/ SchedNow
    \/ SchedLock
    \/ SchedTop
    \/ SchedFinish
    \/ SchedCheck
    \/ SchedTimeout
    \/ SchedSpurious
    \/ SchedClearMove
    \/ SchedClearDispose
    \/ SchedDtorStop
    \/ SchedDtorDrain
    \/ SchedDtorNotify
    \/ SchedDtorJoin

FairSched ==
    /\ WF_vars(SchedNow) /\ WF_vars(SchedLock) /\ WF_vars(SchedTop)
    /\ WF_vars(SchedFinish) /\ WF_vars(SchedCheck) /\ WF_vars(SchedTimeout)
    /\ WF_vars(SchedClearDispose) /\ WF_vars(SchedDtorDrain)
    /\ WF_vars(SchedDtorNotify) /\ WF_vars(SchedDtorJoin)

SpecSched == InitSched /\ [][NextSched]_vars /\ FairSched

\* Either engine: a behaviour of the pool's life cycle or a behaviour of the
\* scheduler.
InitEngines == Init \/ InitSched

NextEngines == Next \/ NextSched

SpecEngines == InitEngines /\ [][NextEngines]_vars

\* Resizing a pool in service: set_nworkers calls among submissions and the
\* workers' steps, with no clear() and no destructor.  m_event.wait returns
\* only when notified (a spurious return could only hide a lost wake-up), and a
\* worker that can go on does.
NextShrink ==
    \/ \E n \in 0..MaxN : SetNWorkers(n)
    \/ \E t \in 1..ResizeTasks : Submit(t)
    \/ \E wk \in Workers : WorkerLock(wk)
    \/ \E wk \in Workers : WorkerCheck(wk)
    \/ \E wk \in Workers : WorkerFinish(wk)

FairWorkers ==
    /\ \A wk \in Workers : WF_vars(WorkerLock(wk))
    /\ \A wk \in Workers : WF_vars(WorkerCheck(wk))
    /\ \A wk \in Workers : WF_vars(WorkerFinish(wk))

SpecShrink == InitResize /\ [][NextShrink]_vars /\ FairWorkers

\* ================================================================ claims
\* C1: every task the pool holds gets task_execute at most once,
\* task_abandone at most once, and never both, in every interleaving of
\* worker pops, timer continuations, clear() and the destructor.
C1_ExecuteOrAbandonOnce ==
    \A t \in Tasks :
        /\ exec_n[t] <= 1
        /\ aband_n[t] <= 1
        /\ exec_n[t] + aband_n[t] <= 1

\* C1 witness: the destructor has returned after one task was executed by a
\* worker and another, a delayed one whose timer fired too late, was abandoned.
C1_Witness ==
    /\ u_pc = "returned"
    /\ \E t \in Tasks : exec_n[t] = 1
    /\ \E b \in Tasks : b_pc[b] = "lost" /\ aband_n[b] = 1

\* C2: when ~thread_pool() has returned, every task the pool ever held was
\* executed or abandoned, no worker is still inside a task, and both m_tasks
\* and m_delayed are empty.
C2_DtorSettlesEveryTask ==
    u_pc = "returned" =>
        /\ \A t \in Tasks : t_sub[t] => exec_n[t] + aband_n[t] >= 1
        /\ \A wk \in Workers : w_task[wk] = 0
        /\ m_tasks = <<>>
        /\ m_delayed = {}

\* C2 witness: the destructor has returned with one delayed task promoted by
\* its timer while the destructor's clear() waited for it, and another whose
\* timer has not fired yet.
C2_Witness ==
    /\ u_pc = "returned"
    /\ \E b \in Tasks : b_res[b] = "promoted" /\ b \in c_entry
    /\ \E b \in Tasks : b_res[b] = "abandoned" /\ b_pc[b] = "armed"

\* The user thread is stopped for good in the destructor: it has begun, has not
\* returned, and no thread of the program can take a step.
DtorBlocked ==
    /\ destroying
    /\ u_pc /= "returned"
    /\ fault = "none"
    /\ ~ENABLED Step

\* C4: ~thread_pool() eventually returns.  Stated on finite runs: the
\* destructor is never left without a step that leads on, whatever the
\* interleaving of its stop requests and notify_all with the workers'
\* check-then-wait.
C4_DtorReturns == ~DtorBlocked

\* C10: when clear() has returned, every bridge that was linked in m_delayed
\* when it took the lock is unlinked and was promoted or abandoned,
\* m_delayed_count is 0, m_tasks is empty, and every task clear() took out of
\* m_tasks was abandoned (once, and not executed).
C10_ClearResolvesAll ==
    (last_op = "clear" /\ u_pc \in {"idle", "d_join"}) =>
        /\ c_entry \cap m_delayed = {}
        /\ \A b \in c_entry : b_res[b] \in {"promoted", "abandoned"}
        /\ m_delayed_count = 0
        /\ m_tasks = <<>>
        /\ \A t \in c_taken : aband_n[t] = 1 /\ exec_n[t] = 0

\* C10 witness: a clear() called by the user has returned; it found two
\* bridges, abandoned one, waited for the timer of the other to promote its
\* task, and abandoned that task from the FIFO.
C10_Witness ==
    /\ last_op = "clear" /\ u_pc = "idle" /\ ~destroying
    /\ \E b1, b2 \in c_entry :
          /\ b_res[b1] = "promoted" /\ b1 \in c_taken
          /\ b_res[b2] = "abandoned"

\* ------------------------------------------------ claims about resizing
\* The workers held by the container, the ones among them that were not asked
\* to stop, and the logical worker count old = |workers| - pending.
Entries == Range(m_workers) \ {Null}
NonStopping == {wk \in Entries : ~w_stop[wk]}
LogicalCount == Len(m_workers) - m_pending
StoppingSuffix == SubSeq(m_workers, Len(m_workers) - m_pending + 1, Len(m_workers))
Started == {wk \in Workers : w_pc[wk] /= "none"}

\* C3: no worker is dropped from m_workers while its thread is not joined,
\* and once ~thread_pool() has returned every worker the pool ever started has
\* left its loop and was joined.
C3_EveryWorkerJoined ==
    /\ dropped = {}
    /\ u_pc = "returned" => \A wk \in Started : w_pc[wk] = "done" /\ w_joined[wk]

\* C5: once the future returned by set_nworkers(k) (or after thread_pool(k))
\* is ready, get_nworkers() returns k.
C5_GetAfterSet ==
    (UserIdle /\ FutReady) => get_nworkers = last_n

\* C6: set_nworkers(0) on a pool with running workers sets the stop flag of
\* every one of them, its future is not ready before all of them have exited,
\* and while the last resize was to 0 no task starts to execute.
C6_StopAll ==
    [][ /\ (ncalls' = ncalls + 1 /\ last_n' = 0 /\ NonStopping /= {}) =>
              /\ \A wk \in NonStopping : w_stop'[wk]
              /\ FutReady' => \A wk \in NonStopping : w_pc'[wk] = "done"
        /\ last_n = 0 => exec_n' = exec_n ]_vars

\* C7: a set_nworkers(k) that directly follows set_nworkers(k) (or
\* thread_pool(k)) changes neither m_workers, nor m_pending, nor a stop flag,
\* and returns a ready future.
C7_RepeatIsNoOp ==
    [][ (ncalls' = ncalls + 1 /\ last_n' = last_n /\ last_op \in {"ctor", "set_nworkers"}) =>
            /\ fault' = "none"
            /\ m_workers' = m_workers
            /\ m_pending' = m_pending
            /\ w_stop' = w_stop
            /\ FutReady' ]_vars

\* C8: set_nworkers(n) with n below the logical count old sets the stop flag
\* of exactly old - n workers that had none, adds exactly old - n to
\* m_pending, leaves n workers of the container without stop flag, and its
\* future is not ready before each worker it marked has exited.
C8_Shrink ==
    [][ (ncalls' = ncalls + 1 /\ m_pending <= Len(m_workers) /\ last_n' < LogicalCount) =>
            LET newly == {wk \in Workers : w_stop'[wk] /\ ~w_stop[wk]} IN
            /\ fault' = "none"
            /\ newly \subseteq Entries
            /\ Cardinality(newly) = LogicalCount - last_n'
            /\ m_pending' = m_pending + (LogicalCount - last_n')
            /\ Cardinality(NonStopping') = last_n'
            /\ FutReady' => \A wk \in newly : w_pc'[wk] = "done" ]_vars

\* C9: set_nworkers(n) with n above the logical count old stays within the
\* container; joins and removes every stopping worker that has finished; keeps
\* the ones still running as the stopping suffix, m_pending being their number;
\* starts exactly n - old workers; leaves exactly n workers without stop flag;
\* and returns a ready future.
C9_Grow ==
    [][ (ncalls' = ncalls + 1 /\ m_pending <= Len(m_workers) /\ last_n' > LogicalCount) =>
            LET stopping == Range(StoppingSuffix) \ {Null}
                finished == {wk \in stopping : is_finished(wk, w_pc)}
            IN
            /\ fault' = "none"
            /\ \A wk \in finished : w_joined'[wk] /\ wk \notin Range(m_workers')
            /\ m_pending' = Cardinality(stopping \ finished)
            /\ Range(StoppingSuffix') = stopping \ finished
            /\ Cardinality(Started' \ Started) = last_n' - LogicalCount
            /\ Cardinality(NonStopping') = last_n'
            /\ FutReady' ]_vars

\* ------------------------------------------- claims about clear and order
\* A clear() called by the user (not by the destructor) is between taking the
\* lock and returning.
InUserClear == ~destroying /\ u_pc \in {"c_wait", "c_woken", "c_dispose"}

\* C11: no step taken while a user's clear() runs changes m_workers, m_pending
\* or a stop flag; and a task a worker holds (popped, in task_execute) is not
\* among the tasks clear() swaps out, is not abandoned, and leaves the worker's
\* hands only when task_execute returns.
C11_ClearLeavesWorkers ==
    [][ /\ (~destroying' /\ (InUserClear \/ InUserClear')) =>
              /\ m_workers' = m_workers
              /\ m_pending' = m_pending
              /\ w_stop' = w_stop
        /\ \A wk \in Workers : w_task[wk] /= 0 =>
              /\ w_task[wk] \notin Range(c_tasks') \cup c_taken'
              /\ aband_n'[w_task[wk]] = 0
              /\ w_task'[wk] /= w_task[wk] =>
                    /\ w_pc[wk] = "exec" /\ w_pc'[wk] = "idle"
                    /\ exec_n'[w_task[wk]] = 1 ]_vars

\* C11 witness: a user's clear() has returned after abandoning a task of the
\* FIFO while a worker was, and still is, inside the task it popped before.
C11_Witness ==
    /\ last_op = "clear" /\ u_pc = "idle" /\ ~destroying
    /\ c_taken /= {}
    /\ \E wk \in Workers : w_pc[wk] = "exec" /\ w_task[wk] \notin c_taken
                           /\ aband_n[w_task[wk]] = 0

\* Position of a task in the append history (a task is appended once).
Pos(t) == CHOOSE i \in 1..Len(h_push) : h_push[i] = t

\* The pops so far followed the order of the appends, and nothing still queued
\* was appended before a task already popped.
PoppedInAppendOrder ==
    /\ \A i, j \in 1..Len(h_pop) : i < j => Pos(h_pop[i]) < Pos(h_pop[j])
    /\ \A p \in Range(h_pop) : \A q \in Range(m_tasks) : Pos(p) < Pos(q)

\* C12: workers pop tasks in the order in which the tasks were appended to
\* m_tasks (a task appended earlier is never popped after one appended later),
\* and the continuation of a delayed task appends it behind every task that
\* is in the FIFO when the continuation runs.
C12_FifoOrder ==
    /\ []PoppedInAppendOrder
    /\ [][ \A b \in Tasks : (b_res[b] = "none" /\ b_res'[b] = "promoted") =>
              /\ m_tasks' = Append(m_tasks, b)
              /\ h_push' = Append(h_push, b) ]_vars

\* C12 witness: a delayed task submitted first and an immediate task submitted
\* second were popped in the opposite order, the timer having fired after the
\* second submission.
C12_Witness ==
    /\ h_push = <<2, 1>>
    /\ h_pop = <<2, 1>>
    /\ b_res[1] = "promoted"

\* C13: in a pool in service (no clear(), no destructor, PoolSize workers
\* without stop flag), once a delayed task's timer has claimed the bridge the
\* continuation unlinks the bridge, appends the task to m_tasks and wakes a
\* worker if one waits; the task is then executed, exactly once, and the bridge
\* stays out of m_delayed.
C13_TimerPromotes ==
    /\ \A b \in Tasks :
          (b_pc[b] = "claimed") ~>
              (exec_n[b] = 1 /\ b_res[b] = "promoted" /\ b \notin m_delayed)
    /\ [](\A b \in Tasks : /\ exec_n[b] <= 1
                           /\ b_res[b] = "promoted" => b \notin m_delayed)
    /\ [][ \A b \in Tasks : (b_pc[b] = "claimed" /\ b_pc'[b] = "done") =>
              /\ b \in m_delayed /\ b \notin m_delayed'
              /\ m_tasks' = Append(m_tasks, b)
              /\ Waiters /= {} => \E x \in Waiters : w_pc'[x] = "idle" ]_vars

\* C13 witness: every worker waited on m_event when the timer's continuation
\* appended the task; the task was then executed.
C13_Witness ==
    \E b \in Tasks :
        /\ b_res[b] = "promoted" /\ exec_n[b] = 1
        /\ h_push[1] = b
        /\ \A wk \in Workers : w_pc[wk] \in {"none", "wait"}

\* ------------------------------------------- claims about the scheduler
\* C14: the scheduler thread never executes a task before its deadline:
\* whenever it is inside task_execute, and for every task it has executed, the
\* clock has reached the task's time point.
C14_NotBeforeDeadline ==
    /\ s_pc = "exec" => s_point[s_item] <= s_now
    /\ \A t \in Tasks : (s_pc /= "none" /\ exec_n[t] >= 1) => s_point[t] <= s_now

\* C14 witness: the thread is inside a task whose time point lay in the future
\* when it was submitted, while another task, not yet due, stays in the heap.
C14_Witness ==
    /\ s_pc = "exec"
    /\ s_point[s_item] >= 1
    /\ \E u \in s_queue : s_point[u] > s_now

\* Both tasks were submitted before the clock reached the earlier of their
\* time points.
BothInHeapEarly(a, b) == <<a, b>> \in s_early \/ <<b, a>> \in s_early

\* C15: the task the scheduler thread pops for execution has the smallest time
\* point of all tasks in the heap at that moment; and of two executed tasks
\* that were both submitted before the earlier of their time points arrived,
\* the one popped first has the time point that is not the greater one.
C15_DeadlineOrder ==
    /\ [][ (s_pc = "locked" /\ s_pc' = "exec") =>
              /\ s_item' \in s_queue
              /\ \A u \in s_queue : s_point[s_item'] <= s_point[u] ]_vars
    /\ [](\A i, j \in 1..Len(h_pop) :
              (s_pc /= "none" /\ i < j /\ BothInHeapEarly(h_pop[i], h_pop[j])) =>
                  s_point[h_pop[i]] <= s_point[h_pop[j]])

\* C15 witness: two tasks submitted before either time point arrived, the
\* later time point first, were executed in the order of their time points.
C15_Witness ==
    /\ h_push = <<1, 2>>
    /\ h_pop = <<2, 1>>
    /\ s_point[2] < s_point[1]
    /\ <<1, 2>> \in s_early

\* A task in the heap is due.
Due(t) == t \in s_queue /\ s_point[t] <= s_now
\* The task got its callback: it was executed or abandoned.
Settled(t) == exec_n[t] + aband_n[t] >= 1

\* C16: the destructor abandons every task it finds in the heap, once; from
\* the moment m_stopped is set no task of the heap is executed; the scheduler
\* thread then leaves thread_func and the destructor returns, not before the
\* thread has exited; by then every submitted task has had exactly one
\* callback.
C16_DtorAbandonsAll ==
    /\ [][ /\ (u_pc = "s_drain" /\ u_pc' = "s_notify") =>
                 /\ s_queue' = {}
                 /\ \A t \in Tasks :
                       aband_n'[t] = IF t \in s_queue THEN 1 ELSE aband_n[t]
           /\ s_stopped' => \A t \in s_queue : exec_n'[t] = exec_n[t] ]_vars
    /\ [](u_pc = "s_returned" =>
             /\ s_pc = "exit"
             /\ s_queue = {}
             /\ \A t \in Tasks : t_sub[t] => exec_n[t] + aband_n[t] = 1)
    /\ s_stopped ~> (s_pc = "exit" /\ u_pc = "s_returned")

\* C16 witness: the destructor has returned after abandoning every task, all
\* of them found in the heap.
C16_Witness ==
    /\ u_pc = "s_returned"
    /\ \A t \in Tasks : aband_n[t] = 1 /\ t \in cb_locked

\* C17: clear() takes exactly the heap as it is under the lock and leaves it
\* empty; it abandons each task it took once and no other; a task it took is
\* never executed; m_stopped and the scheduler thread's life are untouched; and
\* after a clear() a due task in the heap is still executed (or abandoned by a
\* later clear() or the destructor).
C17_ClearAbandonsHeap ==
    /\ [][ /\ (u_pc = "s_idle" /\ u_pc' = "s_dispose") =>
                 /\ c_queue' = s_queue /\ s_queue' = {}
                 /\ s_stopped' = s_stopped /\ s_pc' = s_pc
           /\ (u_pc = "s_dispose" /\ u_pc' = "s_idle") =>
                 /\ \A t \in Tasks :
                       aband_n'[t] = IF t \in c_queue THEN 1 ELSE aband_n[t]
                 /\ s_queue' = s_queue /\ s_stopped' = s_stopped /\ s_pc' /= "exit"
           /\ \A t \in Tasks : (t \in c_queue \/ aband_n[t] >= 1) => exec_n'[t] = 0 ]_vars
    /\ [](~s_stopped => s_pc /= "exit")
    /\ \A t \in Tasks :
          (Due(t) /\ ~s_stopped /\ \E u \in Tasks : aband_n[u] = 1) ~> Settled(t)

\* C17 witness: clear() abandoned task 1; task 2, with a later time point,
\* went into the heap after that and was executed.
C17_Witness ==
    /\ ~s_stopped /\ u_pc = "s_idle"
    /\ aband_n[1] = 1 /\ exec_n[2] = 1
    /\ s_point[1] < s_point[2]

\* C18: a due task in the heap is executed in the end, or abandoned by
\* clear() or the destructor; and while the scheduler thread sleeps in
\* wait_until, the time point it sleeps until is not later than the time point
\* of any task in the heap.
C18_DueIsExecuted ==
    /\ \A t \in Tasks : Due(t) ~> Settled(t)
    /\ [](s_pc = "wait" => \A t \in s_queue : s_wait <= s_point[t])

\* C18 witness: the only task, submitted when the clock had already reached
\* its time point, is being executed.
C18_Witness ==
    \E t \in Tasks :
        /\ exec_n[t] = 1
        /\ s_point[t] >= 1 /\ <<t, t>> \notin s_early
        /\ \A u \in Tasks \ {t} : ~t_sub[u]
        /\ s_pc = "exec"

\* ---------------------------------------------- claims about the locks
\* C19: a pool worker inside task_execute does not hold the pool's m_mutex,
\* and the scheduler thread inside task_execute does not hold the scheduler's
\* m_mutex; the step that pops the task is taken with the mutex held and
\* releases it.
C19_ExecuteOutsideLock ==
    /\ [](\A wk \in Workers : w_pc[wk] = "exec" => m_mutex /= wk)
    /\ [](s_pc = "exec" => s_mutex /= "thread")
    /\ [][ /\ \A wk \in Workers : (w_pc[wk] /= "exec" /\ w_pc'[wk] = "exec") =>
                 (m_mutex = wk /\ m_mutex' = 0)
           /\ (s_pc /= "exec" /\ s_pc' = "exec") =>
                 (s_mutex = "thread" /\ s_mutex' = "free") ]_vars

\* C19 witness (pool): a worker is inside a task while another worker holds
\* m_mutex.
C19_Witness ==
    \E wk \in Workers : w_pc[wk] = "exec" /\ m_mutex \notin {0, wk}

\* C20: no task_abandone is called by a thread that holds its engine's mutex
\* (pool: clear() and the destructor; scheduler: clear() and the destructor).
C20_AbandonOutsideLocks == cb_locked = {}

\* ------------------------------------------- claims about the latch
\* C21: for every bridge at most one of its timer continuation and clear()
\* wins the latch; a continuation that lost it returns at once, leaving
\* m_delayed, m_tasks and m_delayed_count as they are, and does nothing later;
\* the task is pushed to m_tasks only by the continuation that won, and is
\* abandoned from the bridge only by a clear() that found the latch clear.
C21_LatchArbitrates ==
    /\ [](\A b \in Tasks :
             /\ ~(b_pc[b] \in {"claimed", "done"} /\ b_res[b] = "abandoned")
             /\ b_res[b] = "promoted" => b_pc[b] = "done"
             /\ b_pc[b] = "lost" => b_res[b] = "abandoned")
    /\ [][ \A b \in Tasks :
              /\ (b_pc[b] = "armed" /\ b_pc'[b] = "lost") =>
                    /\ marked[b]
                    /\ UNCHANGED <<m_delayed, m_tasks, m_delayed_count>>
              /\ b_pc[b] = "lost" => b_pc'[b] = "lost"
              /\ (b_res[b] = "none" /\ b_res'[b] = "promoted") =>
                    b_pc[b] = "claimed" /\ b_pc'[b] = "done"
              /\ (b_res[b] = "none" /\ b_res'[b] = "abandoned") =>
                    /\ ~marked[b] /\ marked'[b]
                    /\ b \in m_delayed /\ b \notin m_delayed'
                    /\ u_pc \in {"idle", "d_clear"} ]_vars

\* C21 witness: one bridge was claimed by clear() and its timer, firing
\* later, lost; the other was claimed by its timer first, counted by clear()
\* and promoted.
C21_Witness ==
    \E b1, b2 \in Tasks :
        /\ b_pc[b1] = "lost" /\ b_res[b1] = "abandoned"
        /\ b_pc[b2] = "done" /\ b_res[b2] = "promoted" /\ b2 \in c_entry
\* A continuation that won its bridge's latch has not finished its locked
\* section (lines 32-50).
MidFlight(b) == b_pc[b] = "claimed"

\* C22: clear() is past its wait (and so has returned, or will without
\* waiting again) only when no continuation that won a latch is still short
\* of the end of its locked section; while such a continuation is in flight the
\* destructor has not returned; and no continuation enters the pool after the
\* destructor has returned.
C22_NoTeardownMidFlight ==
    /\ (u_pc \in {"c_dispose", "d_join", "returned"} \/ (u_pc = "idle" /\ last_op = "clear"))
          => \A b \in Tasks : ~MidFlight(b)
    /\ fault /= "dangling"

\* C22 witness: the destructor has returned; its clear() had found a bridge
\* whose timer held the latch, waited for the transfer, and abandoned the task
\* from the FIFO.
C22_Witness ==
    /\ u_pc = "returned"
    /\ \E b \in c_entry : b_pc[b] = "done" /\ b_res[b] = "promoted" /\ aband_n[b] = 1
\* ------------------------------------- more claims about resizing
\* The workers of the container whose stop flag is set.
Stopping == {wk \in Entries : w_stop[wk]}

\* C23: on a live pool m_pending is the number of workers in m_workers whose
\* stop flag is set, and is not above the size of m_workers.
C23_PendingCountsStopping ==
    (~destroying /\ fault = "none") =>
        /\ m_pending = Cardinality(Stopping)
        /\ m_pending <= Len(m_workers)
\* ------------------------------------------ claims about delayed_count
\* C24: m_delayed_count is never negative and never above the number of
\* linked bridges whose timer won the latch and has not finished the transfer;
\* it is nonzero only while a clear() waits; and a transfer that finds it 0
\* leaves it 0.
C24_DelayedCountBounds ==
    /\ [](/\ m_delayed_count >= 0
          /\ m_delayed_count <= Cardinality({b \in m_delayed : MidFlight(b)})
          /\ m_delayed_count > 0 => u_pc \in {"c_wait", "c_woken"})
    /\ [][ \A b \in Tasks :
              (MidFlight(b) /\ ~MidFlight(b)' /\ m_delayed_count = 0) =>
                    m_delayed_count' = 0 ]_vars

\* C24 witness: a clear() waits with m_delayed_count = 1 for the one bridge
\* it found, whose timer holds the latch; another task had been promoted
\* before, when m_delayed_count was 0.
C24_Witness ==
    /\ u_pc = "c_wait"
    /\ m_delayed_count = 1
    /\ \E b1, b2 \in Tasks :
          /\ c_entry = {b2} /\ MidFlight(b2) /\ b2 \in m_delayed
          /\ b_res[b1] = "promoted"
\* ------------------------------------------ claims about termination
\* C25: as long as the pool has not met a fault, every worker whose stop flag
\* a shrinking set_nworkers set leaves its loop in the end (stop flags stay set
\* and the calls are finitely many, so in the end all of them have left for
\* good); once the flag is set a worker pops no task, whether it waited, was
\* about to take the lock or was inside a task; the workers the returned future
\* waits for are workers with stop flag, and the future becomes ready.
C25_StoppedWorkersExit ==
    /\ <>[](fault = "none" => \A wk \in Workers : w_stop[wk] => w_pc[wk] = "done")
    /\ [][ \A wk \in Workers :
              (w_stop[wk] /\ w_pc[wk] /= "exec") =>
                    (w_pc'[wk] /= "exec" /\ w_task'[wk] = 0) ]_vars
    /\ [](fault = "none" => \A wk \in fut.deps : w_stop[wk])
    /\ <>[](fault = "none" => FutReady)

\* C25 witness: the future of a shrinking call is ready; one worker it stopped
\* had been waiting on m_event, the other was inside a task, which it finished.
C25_Witness ==
    /\ fault = "none" /\ ~fut.imm /\ FutReady
    /\ Cardinality(fut.deps) >= 2
    /\ \E t \in Tasks : exec_n[t] = 1 /\ h_pop = <<t>>
    /\ m_tasks = <<>>

\* The user thread is stopped for good in the wait of line 177 of a clear() on
\* a live pool: every continuation that claimed its bridge has run,
\* m_delayed_count is back to 0, and no thread of the program can take a step.
ClearBlocked ==
    /\ ~destroying
    /\ u_pc = "c_wait"
    /\ m_delayed_count = 0
    /\ \A b \in Tasks : ~MidFlight(b)
    /\ fault = "none"
    /\ ~ENABLED Step

\* C26: clear() on a live pool eventually returns when every continuation that
\* claimed its bridge runs: the notify_one issued when m_delayed_count reaches
\* 0 wakes the clear() caller, also when idle workers wait on m_event.  Stated
\* on finite runs: clear() is never left in its wait with the count at 0 and
\* no step that leads on.
C26_ClearReturns == ~ClearBlocked

====
